---- MODULE Spec2Model ----
(***************************************************************************)
(* Model of src/mturk.py: the MTurk requester engine.  One engine thread   *)
(* runs one public operation (create_hit_group, expire_hits, delete_hits,  *)
(* force_delete_hits, approve_assignments); create_hit_group and           *)
(* expire_hits fan the work out to CreateHits / ExpireHits worker threads. *)
(*                                                                         *)
(* Money is kept in exact scaled integers: a reward is counted in units of *)
(* $0.005 and a balance or a cost in units of $0.001, so that              *)
(* len(data) * reward * MaxAssignments * 1.2 is the integer                *)
(* len(data) * reward * MaxAssignments * 6.                                *)
(***************************************************************************)
EXTENDS Integers, Sequences, FiniteSets, TLC

\* ---- bounds of the model ----
MaxItems == 3          \* longest input list of create / expire / delete
MaxThreads == 2        \* largest n_threads
MaxReward == 1         \* largest Reward, in units of $0.005
MaxAssign == 2         \* largest MaxAssignments
MaxBalance == 24       \* largest account balance, in units of $0.001
MaxAssignHits == 2     \* longest list handed to approve_assignments
MaxPerHit == 2         \* most assignment records of one hit
PartMaxItems == 7      \* longest list of the partitioning specification
PartMaxThreads == 4    \* largest n_threads of the partitioning specification

\* ---- values ----
None == 0              \* Python's None in a response slot; HIT ids are >= 1
FeeTimesFive == 6      \* the 1.2 multiplier, on a reward counted in $0.005

HITStatuses == {"Assignable", "Reviewing", "Reviewable", "Disposed"}
AssignmentStatuses == {"Submitted", "Approved", "Rejected"}

EngineClient == 0      \* MTurk.amt, the client the engine constructed

VARIABLES
    op,               \* the public operation the engine runs
    pc,               \* position of the engine thread
    idx,              \* index of the engine's current for loop
    jdx,              \* index of approve_assignments' inner for loop
    n_threads,        \* self.n_threads
    data,             \* create_hit_group's data points
    rendered,         \* the HTML _render_hit_html yields for each data point
    hits,             \* handles given to expire / delete / force_delete
    assignments,      \* list given to approve_assignments
    reward,           \* basic_hit_params['Reward']
    max_assignments,  \* basic_hit_params['MaxAssignments']
    current_balance,  \* expected_cost's current_balance (-1: not read)
    cost_plus_fee,    \* expected_cost's cost_plus_fee (-1: not computed)
    cost_ret,         \* value returned by expected_cost
    hit_params,       \* create_hit_group's hit_params
    hit_batches,      \* hit_batches of create_hit_group / expire_hits
    threads,          \* the worker objects, in creation order
    res_queue,        \* queue.Queue of per-worker response lists
    put_log,          \* history: the workers that called put, in order
    worker_amt,       \* self.amt of each worker: the client it constructed
    result_list,      \* create_hit_group's result_list
    hits_created,     \* create_hit_group's hits_created
    returned,         \* how the operation ended
    error,            \* the exception that left the operation
    calls,            \* history: remote calls issued, in order
    snapshots         \* history: files written by pickle_this

vars == <<op, pc, idx, jdx, n_threads, data, rendered, hits, assignments, reward,
          max_assignments, current_balance, cost_plus_fee, cost_ret,
          hit_params, hit_batches, threads, res_queue, put_log, worker_amt,
          result_list,
          hits_created, returned, error, calls, snapshots>>

inputVars == <<data, rendered, hits, assignments, reward, max_assignments>>
costVars == <<current_balance, cost_plus_fee, cost_ret>>
workerVars == <<threads, res_queue, put_log, worker_amt>>
resultVars == <<result_list, hits_created, snapshots>>

\* ---- pure helpers ----

\* hits[start::step], start counted from 0 as in Python
RECURSIVE ExtSlice(_, _, _)
ExtSlice(s, start, step) ==
    IF start >= Len(s) THEN <<>>
    ELSE <<s[start + 1]>> \o ExtSlice(s, start + step, step)

\* a partitioner that hands out the same slices in the opposite batch order
PartitionReversed(s, n) == [i \in 1..n |-> ExtSlice(s, n - i, n)]

\* a partitioner that builds no batch for a worker without items
PartitionNonEmpty(s, n) ==
    LET filled == SelectSeq([i \in 1..n |-> ExtSlice(s, i - 1, n)], LAMBDA b : b # <<>>)
    IN IF filled = <<>> THEN << <<>> >> ELSE filled

\* a partitioner whose slices start one item late
PartitionLate(s, n) == [i \in 1..n |-> ExtSlice(s, i, n)]

\* [hits[i::n] for i in range(n)]
Partition(s, n) == [i \in 1..n |-> ExtSlice(s, i - 1, n)]

\* [item for sl in result_list for item in sl]
RECURSIVE Flatten(_)
Flatten(ll) == IF ll = <<>> THEN <<>> ELSE Head(ll) \o Flatten(Tail(ll))

\* len(data) * float(Reward) * MaxAssignments * 1.2
CostPlusFee(n, r, m) == n * r * m * FeeTimesFive

\* the value of an expected_cost return: None, or a number
NoneRet == [isNone |-> TRUE, val |-> 0]
NumRet(v) == [isNone |-> FALSE, val |-> v]

\* Python truth value of an expected_cost return
Truthy(r) == ~r.isNone /\ r.val # 0

Call(api, arg, client, ok) == [api |-> api, arg |-> arg, client |-> client, ok |-> ok]

NewThread(batch) == [state |-> "new", pos |-> 1, batch |-> batch, responses |-> <<>>]

Terminated(t) == t.state \in {"finished", "died"}

\* the MturkClient a new worker constructs for itself; the engine's came first
FreshClient == Len(worker_amt) + 1

\* the bodies a template can render to: plain text, or text with a stray ]]>
Bodies == { <<"text">>, <<"text", "]]>", "text">> }

\* the CDATA part of the envelope _create_question_xml wraps around a body
Envelope(html) == <<"<![CDATA[">> \o html \o <<"]]>">>

\* xmltodict.parse on the envelope: a CDATA section runs to the first ]]>,
\* a ]]> outside a CDATA section is not well-formed
RECURSIVE XmlParses(_, _)
XmlParses(toks, inCdata) ==
    IF toks = <<>> THEN ~inCdata
    ELSE IF Head(toks) = "<![CDATA[" THEN XmlParses(Tail(toks), TRUE)
    ELSE IF Head(toks) = "]]>" THEN inCdata /\ XmlParses(Tail(toks), FALSE)
    ELSE XmlParses(Tail(toks), inCdata)

\* _create_question_xml returns the envelope rather than raising
QuestionValid(html) == XmlParses(Envelope(html), FALSE)

\* ---- initial state: the engine is constructed and idle ----
Blank ==
    /\ op = "none" /\ pc = "idle" /\ idx = 0 /\ jdx = 0
    /\ data = <<>> /\ rendered = <<>> /\ hits = <<>> /\ assignments = <<>>
    /\ reward = 0 /\ max_assignments = 0
    /\ current_balance = -1 /\ cost_plus_fee = -1 /\ cost_ret = NoneRet
    /\ hit_params = <<>> /\ hit_batches = <<>>
    /\ threads = <<>> /\ res_queue = <<>> /\ put_log = <<>> /\ worker_amt = <<>>
    /\ result_list = <<>> /\ hits_created = <<>>
    /\ returned = "no" /\ error = "none"
    /\ calls = <<>> /\ snapshots = <<>>

Init == Blank /\ n_threads \in 1..MaxThreads

\* ---- create_hit_group ----

CallCreateHitGroup ==
    /\ pc = "idle"
    /\ \E n \in 0..MaxItems, r \in 0..MaxReward, m \in 0..MaxAssign :
          /\ data' = [i \in 1..n |-> i]
          /\ rendered' \in [1..n -> Bodies]
          /\ reward' = r
          /\ max_assignments' = m
    /\ op' = "create" /\ pc' = "expected_cost"
    /\ UNCHANGED <<idx, jdx, n_threads, hits, assignments, costVars, hit_params,
                   hit_batches, workerVars, resultVars, returned, error, calls>>

\* an expected_cost that swallows the ClientError of the balance query
ExpectedCostSwallow ==
    /\ pc = "expected_cost"
    /\ \E b \in 0..MaxBalance, ok \in BOOLEAN :
          LET c == CostPlusFee(Len(data), reward, max_assignments) IN
          /\ cost_plus_fee' = c
          /\ current_balance' = b
          /\ cost_ret' = IF ok /\ c > b THEN NoneRet ELSE NumRet(c)
          /\ calls' = Append(calls, Call("get_account_balance", 0, EngineClient, ok))
          /\ pc' = "gate"
    /\ UNCHANGED <<op, idx, jdx, n_threads, inputVars, hit_params, hit_batches,
                   workerVars, resultVars, returned, error>>

\* expected_cost: the cost, the live balance query, the comparison
ExpectedCost ==
    /\ pc = "expected_cost"
    /\ \/ \E b \in 0..MaxBalance :
             LET c == CostPlusFee(Len(data), reward, max_assignments) IN
             /\ cost_plus_fee' = c
             /\ current_balance' = b
             /\ cost_ret' = IF c > b THEN NoneRet ELSE NumRet(c)
             /\ calls' = Append(calls, Call("get_account_balance", 0, EngineClient, TRUE))
             /\ pc' = "gate"
             /\ UNCHANGED <<returned, error>>
       \/ /\ cost_plus_fee' = CostPlusFee(Len(data), reward, max_assignments)
          /\ calls' = Append(calls, Call("get_account_balance", 0, EngineClient, FALSE))
          /\ pc' = "raised" /\ returned' = "exception" /\ error' = "ClientError"
          /\ UNCHANGED <<current_balance, cost_ret>>
    /\ UNCHANGED <<op, idx, jdx, n_threads, inputVars, hit_params, hit_batches,
                   workerVars, resultVars>>

\* a gate that ignores the value expected_cost returned
CostGateOpen ==
    /\ pc = "gate"
    /\ pc' = "build"
    /\ UNCHANGED <<op, idx, jdx, n_threads, inputVars, costVars, hit_params,
                   hit_batches, workerVars, resultVars, returned, error, calls>>

\* if not self.expected_cost(data, **kwargs): return None
CostGate ==
    /\ pc = "gate"
    /\ IF Truthy(cost_ret)
       THEN pc' = "build" /\ UNCHANGED returned
       ELSE pc' = "done" /\ returned' = "None"
    /\ UNCHANGED <<op, idx, jdx, n_threads, inputVars, costVars, hit_params,
                   hit_batches, workerVars, resultVars, error, calls>>

\* a build that keeps every envelope without parsing it
BuildParamsUnchecked ==
    /\ pc = "build"
    /\ hit_params' = data
    /\ pc' = "partition"
    /\ UNCHANGED <<op, idx, jdx, n_threads, inputVars, costVars, hit_batches,
                   workerVars, resultVars, returned, error, calls>>

\* hit_params = [self.create_html_hit_params(...) for point in data]
BuildParams ==
    /\ pc = "build"
    /\ IF \A i \in 1..Len(data) : QuestionValid(rendered[i])
       THEN /\ hit_params' = data
            /\ pc' = "partition"
            /\ UNCHANGED <<returned, error>>
       ELSE /\ pc' = "raised" /\ returned' = "exception" /\ error' = "ExpatError"
            /\ UNCHANGED hit_params
    /\ UNCHANGED <<op, idx, jdx, n_threads, inputVars, costVars, hit_batches,
                   workerVars, resultVars, calls>>

\* hit_batches, threads = [], res_queue = queue.Queue()
CreatePartition ==
    /\ pc = "partition" /\ op = "create"
    /\ hit_batches' = Partition(hit_params, n_threads)
    /\ threads' = <<>> /\ res_queue' = <<>>
    /\ pc' = "construct" /\ idx' = 1
    /\ UNCHANGED <<op, jdx, n_threads, inputVars, costVars, hit_params, put_log, worker_amt,
                   resultVars, returned, error, calls>>

\* a construction loop that starts each worker as soon as it is built
CreateConstructStarting ==
    /\ pc = "construct" /\ op = "create"
    /\ \/ /\ threads' = Append(threads, [NewThread(hit_batches[idx]) EXCEPT !.state = "running"])
          /\ worker_amt' = Append(worker_amt, FreshClient)
          /\ IF idx = Len(hit_batches)
             THEN pc' = "join" /\ idx' = 1
             ELSE pc' = pc /\ idx' = idx + 1
          /\ UNCHANGED <<returned, error>>
       \/ /\ pc' = "raised" /\ returned' = "exception" /\ error' = "AuthError"
          /\ UNCHANGED <<threads, worker_amt, idx>>
    /\ UNCHANGED <<op, jdx, n_threads, inputVars, costVars, hit_params, hit_batches,
                   res_queue, put_log, resultVars, calls>>

\* a construction loop that hands the engine's own client to every worker
CreateConstructShared ==
    /\ pc = "construct" /\ op = "create"
    /\ \/ /\ threads' = Append(threads, NewThread(hit_batches[idx]))
          /\ worker_amt' = Append(worker_amt, EngineClient)
          /\ IF idx = Len(hit_batches)
             THEN pc' = "start" /\ idx' = 1
             ELSE pc' = pc /\ idx' = idx + 1
          /\ UNCHANGED <<returned, error>>
       \/ /\ pc' = "raised" /\ returned' = "exception" /\ error' = "AuthError"
          /\ UNCHANGED <<threads, worker_amt, idx>>
    /\ UNCHANGED <<op, jdx, n_threads, inputVars, costVars, hit_params, hit_batches,
                   res_queue, put_log, resultVars, calls>>

\* one iteration of: for batch in hit_batches: threads.append(CreateHits(...))
CreateConstruct ==
    /\ pc = "construct" /\ op = "create"
    /\ \/ /\ threads' = Append(threads, NewThread(hit_batches[idx]))
          /\ worker_amt' = Append(worker_amt, FreshClient)
          /\ IF idx = Len(hit_batches)
             THEN pc' = "start" /\ idx' = 1
             ELSE pc' = pc /\ idx' = idx + 1
          /\ UNCHANGED <<returned, error>>
       \/ /\ pc' = "raised" /\ returned' = "exception" /\ error' = "AuthError"
          /\ UNCHANGED <<threads, worker_amt, idx>>
    /\ UNCHANGED <<op, jdx, n_threads, inputVars, costVars, hit_params, hit_batches,
                   res_queue, put_log, resultVars, calls>>

\* one iteration of: for thread in threads: thread.start()
CreateStart ==
    /\ pc = "start" /\ op = "create"
    /\ threads' = [threads EXCEPT ![idx].state = "running"]
    /\ IF idx = Len(threads)
       THEN pc' = "join" /\ idx' = 1
       ELSE pc' = pc /\ idx' = idx + 1
    /\ UNCHANGED <<op, jdx, n_threads, inputVars, costVars, hit_params, hit_batches,
                   res_queue, put_log, worker_amt, resultVars, returned, error, calls>>

\* a join that returns while the thread is still alive
CreateJoinNoWait ==
    /\ pc = "join" /\ op = "create"
    /\ IF idx = Len(threads)
       THEN pc' = "drain" /\ idx' = 0
       ELSE pc' = pc /\ idx' = idx + 1
    /\ UNCHANGED <<op, jdx, n_threads, inputVars, costVars, hit_params, hit_batches,
                   workerVars, resultVars, returned, error, calls>>

\* one iteration of: for thread in threads: thread.join()
CreateJoin ==
    /\ pc = "join" /\ op = "create"
    /\ Terminated(threads[idx])
    /\ IF idx = Len(threads)
       THEN pc' = "drain" /\ idx' = 0
       ELSE pc' = pc /\ idx' = idx + 1
    /\ UNCHANGED <<op, jdx, n_threads, inputVars, costVars, hit_params, hit_batches,
                   workerVars, resultVars, returned, error, calls>>

\* a drain that takes the newest list of the queue first
DrainGetLifo ==
    /\ pc = "drain"
    /\ res_queue # <<>>
    /\ result_list' = Append(result_list, res_queue[Len(res_queue)])
    /\ res_queue' = SubSeq(res_queue, 1, Len(res_queue) - 1)
    /\ UNCHANGED <<op, pc, idx, jdx, n_threads, inputVars, costVars, hit_params,
                   hit_batches, threads, put_log, worker_amt, hits_created, snapshots,
                   returned, error, calls>>

\* one iteration of: while not res_queue.empty(): result_list.append(res_queue.get())
DrainGet ==
    /\ pc = "drain"
    /\ res_queue # <<>>
    /\ result_list' = Append(result_list, Head(res_queue))
    /\ res_queue' = Tail(res_queue)
    /\ UNCHANGED <<op, pc, idx, jdx, n_threads, inputVars, costVars, hit_params,
                   hit_batches, threads, put_log, worker_amt, hits_created, snapshots,
                   returned, error, calls>>

\* a return whose snapshot label counts the populated results only
CreateReturnCountsPopulated ==
    /\ pc = "drain"
    /\ res_queue = <<>>
    /\ hits_created' = Flatten(result_list)
    /\ snapshots' = Append(snapshots,
          [count |-> Len(SelectSeq(Flatten(result_list), LAMBDA r : r # None)),
           content |-> Flatten(result_list)])
    /\ pc' = "done" /\ returned' = "value"
    /\ UNCHANGED <<op, idx, jdx, n_threads, inputVars, costVars, hit_params,
                   hit_batches, workerVars, result_list, error, calls>>

\* the flattening, pickle_this and return of create_hit_group
CreateReturn ==
    /\ pc = "drain"
    /\ res_queue = <<>>
    /\ hits_created' = Flatten(result_list)
    /\ snapshots' = Append(snapshots, [count |-> Len(Flatten(result_list)),
                                       content |-> Flatten(result_list)])
    /\ pc' = "done" /\ returned' = "value"
    /\ UNCHANGED <<op, idx, jdx, n_threads, inputVars, costVars, hit_params,
                   hit_batches, workerVars, result_list, error, calls>>

\* a create_hit that lets the ClientError leave run
CreateHitsCallRaising(k) ==
    /\ op = "create"
    /\ k \in 1..Len(threads)
    /\ threads[k].state = "running"
    /\ threads[k].pos <= Len(threads[k].batch)
    /\ LET point == threads[k].batch[threads[k].pos] IN
       \E ok \in BOOLEAN :
          /\ calls' = Append(calls, Call("create_hit", point, worker_amt[k], ok))
          /\ threads' = IF ok
                        THEN [threads EXCEPT ![k].pos = @ + 1,
                                             ![k].responses = Append(@, point)]
                        ELSE [threads EXCEPT ![k].state = "died"]
    /\ UNCHANGED <<op, pc, idx, jdx, n_threads, inputVars, costVars, hit_params,
                   hit_batches, res_queue, put_log, worker_amt, resultVars, returned, error>>

\* a run that calls create_hit again for an item whose call failed
CreateHitsCallRetry(k) ==
    /\ op = "create"
    /\ k \in 1..Len(threads)
    /\ threads[k].state = "running"
    /\ threads[k].pos <= Len(threads[k].batch)
    /\ LET point == threads[k].batch[threads[k].pos] IN
       \E ok \in BOOLEAN :
          /\ calls' = Append(calls, Call("create_hit", point, worker_amt[k], ok))
          /\ threads' = IF ok
                        THEN [threads EXCEPT ![k].pos = @ + 1,
                                             ![k].responses = Append(@, point)]
                        ELSE threads
    /\ UNCHANGED <<op, pc, idx, jdx, n_threads, inputVars, costVars, hit_params,
                   hit_batches, res_queue, put_log, worker_amt, resultVars, returned, error>>

\* a run that collects its responses newest first
CreateHitsCallPrepend(k) ==
    /\ op = "create"
    /\ k \in 1..Len(threads)
    /\ threads[k].state = "running"
    /\ threads[k].pos <= Len(threads[k].batch)
    /\ LET point == threads[k].batch[threads[k].pos] IN
       \E ok \in BOOLEAN :
          /\ calls' = Append(calls, Call("create_hit", point, worker_amt[k], ok))
          /\ threads' = [threads EXCEPT
                ![k].pos = @ + 1,
                ![k].responses = <<IF ok THEN point ELSE None>> \o @]
    /\ UNCHANGED <<op, pc, idx, jdx, n_threads, inputVars, costVars, hit_params,
                   hit_batches, res_queue, put_log, worker_amt, resultVars, returned, error>>

\* MturkClient.create_hit inside CreateHits.run: one element of the comprehension
CreateHitsCall(k) ==
    /\ op = "create"
    /\ k \in 1..Len(threads)
    /\ threads[k].state = "running"
    /\ threads[k].pos <= Len(threads[k].batch)
    /\ LET point == threads[k].batch[threads[k].pos] IN
       \E ok \in BOOLEAN :
          /\ calls' = Append(calls, Call("create_hit", point, worker_amt[k], ok))
          /\ threads' = [threads EXCEPT
                ![k].pos = @ + 1,
                ![k].responses = Append(@, IF ok THEN point ELSE None)]
    /\ UNCHANGED <<op, pc, idx, jdx, n_threads, inputVars, costVars, hit_params,
                   hit_batches, res_queue, put_log, worker_amt, resultVars, returned, error>>

\* self._queue.put(responses), then run returns
CreateHitsPut(k) ==
    /\ op = "create"
    /\ k \in 1..Len(threads)
    /\ threads[k].state = "running"
    /\ threads[k].pos > Len(threads[k].batch)
    /\ res_queue' = Append(res_queue, threads[k].responses)
    /\ put_log' = Append(put_log, k)
    /\ threads' = [threads EXCEPT ![k].state = "finished"]
    /\ UNCHANGED <<op, pc, idx, jdx, n_threads, inputVars, costVars, hit_params,
                   hit_batches, worker_amt, resultVars, returned, error, calls>>

\* ---- expire_hits, delete_hits, force_delete_hits ----

Handles(n) == [1..n -> [HITId : 1..n, HITStatus : HITStatuses]]
HandleLists == UNION { {h \in Handles(n) : \A i \in 1..n : h[i].HITId = i} : n \in 0..MaxItems }

CallExpireHits ==
    /\ pc = "idle"
    /\ hits' \in HandleLists
    /\ op' = "expire" /\ pc' = "partition"
    /\ UNCHANGED <<idx, jdx, n_threads, data, rendered, assignments, reward, max_assignments,
                   costVars, hit_params, hit_batches, workerVars, resultVars,
                   returned, error, calls>>

CallForceDeleteHits ==
    /\ pc = "idle"
    /\ hits' \in HandleLists
    /\ op' = "force_delete" /\ pc' = "partition"
    /\ UNCHANGED <<idx, jdx, n_threads, data, rendered, assignments, reward, max_assignments,
                   costVars, hit_params, hit_batches, workerVars, resultVars,
                   returned, error, calls>>

CallDeleteHits ==
    /\ pc = "idle"
    /\ hits' \in HandleLists
    /\ op' = "delete" /\ pc' = "delete" /\ idx' = 1
    /\ UNCHANGED <<jdx, n_threads, data, rendered, assignments, reward, max_assignments,
                   costVars, hit_params, hit_batches, workerVars, resultVars,
                   returned, error, calls>>

\* hit_batches and threads = [] of expire_hits
ExpirePartition ==
    /\ pc = "partition" /\ op \in {"expire", "force_delete"}
    /\ hit_batches' = Partition(hits, n_threads)
    /\ threads' = <<>>
    /\ pc' = "construct" /\ idx' = 1
    /\ UNCHANGED <<op, jdx, n_threads, inputVars, costVars, hit_params, res_queue,
                   put_log, worker_amt, resultVars, returned, error, calls>>

\* one iteration of: for batch in hit_batches: threads.append(ExpireHits(...))
ExpireConstruct ==
    /\ pc = "construct" /\ op \in {"expire", "force_delete"}
    /\ \/ /\ threads' = Append(threads, NewThread(hit_batches[idx]))
          /\ worker_amt' = Append(worker_amt, FreshClient)
          /\ IF idx = Len(hit_batches)
             THEN pc' = "start" /\ idx' = 1
             ELSE pc' = pc /\ idx' = idx + 1
          /\ UNCHANGED <<returned, error>>
       \/ /\ pc' = "raised" /\ returned' = "exception" /\ error' = "AuthError"
          /\ UNCHANGED <<threads, worker_amt, idx>>
    /\ UNCHANGED <<op, jdx, n_threads, inputVars, costVars, hit_params, hit_batches,
                   res_queue, put_log, resultVars, calls>>

\* one iteration of: for thread in threads: thread.start()
ExpireStart ==
    /\ pc = "start" /\ op \in {"expire", "force_delete"}
    /\ threads' = [threads EXCEPT ![idx].state = "running"]
    /\ IF idx = Len(threads)
       THEN pc' = "join" /\ idx' = 1
       ELSE pc' = pc /\ idx' = idx + 1
    /\ UNCHANGED <<op, jdx, n_threads, inputVars, costVars, hit_params, hit_batches,
                   res_queue, put_log, worker_amt, resultVars, returned, error, calls>>

\* a join of the expiration workers that returns while the thread is alive
ExpireJoinNoWait ==
    /\ pc = "join" /\ op \in {"expire", "force_delete"}
    /\ IF idx < Len(threads)
       THEN pc' = pc /\ idx' = idx + 1 /\ UNCHANGED returned
       ELSE IF op = "expire"
            THEN pc' = "done" /\ idx' = 0 /\ returned' = "None"
            ELSE pc' = "delete" /\ idx' = 1 /\ UNCHANGED returned
    /\ UNCHANGED <<op, jdx, n_threads, inputVars, costVars, hit_params, hit_batches,
                   workerVars, resultVars, error, calls>>

\* one iteration of: for thread in threads: thread.join(); after the last one
\* expire_hits returns, and force_delete_hits goes on to delete_hits
ExpireJoin ==
    /\ pc = "join" /\ op \in {"expire", "force_delete"}
    /\ Terminated(threads[idx])
    /\ IF idx < Len(threads)
       THEN pc' = pc /\ idx' = idx + 1 /\ UNCHANGED returned
       ELSE IF op = "expire"
            THEN pc' = "done" /\ idx' = 0 /\ returned' = "None"
            ELSE pc' = "delete" /\ idx' = 1 /\ UNCHANGED returned
    /\ UNCHANGED <<op, jdx, n_threads, inputVars, costVars, hit_params, hit_batches,
                   workerVars, resultVars, error, calls>>

\* ExpireHits.run: one element of the comprehension; a ClientError leaves run
ExpireHitsCall(k) ==
    /\ op \in {"expire", "force_delete"}
    /\ k \in 1..Len(threads)
    /\ threads[k].state = "running"
    /\ threads[k].pos <= Len(threads[k].batch)
    /\ LET h == threads[k].batch[threads[k].pos] IN
       \E ok \in BOOLEAN :
          /\ calls' = Append(calls, Call("update_expiration_for_hit", h.HITId, worker_amt[k], ok))
          /\ threads' = IF ok
                        THEN [threads EXCEPT ![k].pos = @ + 1]
                        ELSE [threads EXCEPT ![k].state = "died"]
    /\ UNCHANGED <<op, pc, idx, jdx, n_threads, inputVars, costVars, hit_params,
                   hit_batches, res_queue, put_log, worker_amt, resultVars, returned, error>>

\* ExpireHits.run returns
ExpireHitsExit(k) ==
    /\ op \in {"expire", "force_delete"}
    /\ k \in 1..Len(threads)
    /\ threads[k].state = "running"
    /\ threads[k].pos > Len(threads[k].batch)
    /\ threads' = [threads EXCEPT ![k].state = "finished"]
    /\ UNCHANGED <<op, pc, idx, jdx, n_threads, inputVars, costVars, hit_params,
                   hit_batches, res_queue, put_log, worker_amt, resultVars, returned, error, calls>>

\* a delete loop without the HITStatus test
DeleteStepAnyStatus ==
    /\ pc = "delete"
    /\ idx <= Len(hits)
    /\ \E ok \in BOOLEAN :
          calls' = Append(calls, Call("delete_hit", hits[idx].HITId, EngineClient, ok))
    /\ idx' = idx + 1
    /\ UNCHANGED <<op, pc, jdx, n_threads, inputVars, costVars, hit_params,
                   hit_batches, workerVars, resultVars, returned, error>>

\* one iteration of delete_hits' for loop
DeleteStep ==
    /\ pc = "delete"
    /\ idx <= Len(hits)
    /\ IF hits[idx].HITStatus # "Disposed"
       THEN \E ok \in BOOLEAN :
               calls' = Append(calls, Call("delete_hit", hits[idx].HITId, EngineClient, ok))
       ELSE UNCHANGED calls
    /\ idx' = idx + 1
    /\ UNCHANGED <<op, pc, jdx, n_threads, inputVars, costVars, hit_params,
                   hit_batches, workerVars, resultVars, returned, error>>

\* delete_hits' loop is exhausted: delete_hits / force_delete_hits returns
DeleteReturn ==
    /\ pc = "delete"
    /\ idx > Len(hits)
    /\ pc' = "done" /\ returned' = "None"
    /\ UNCHANGED <<op, idx, jdx, n_threads, inputVars, costVars, hit_params,
                   hit_batches, workerVars, resultVars, error, calls>>

\* ---- approve_assignments ----

AssignmentId(h, a) == 10 * h + a

AssignmentLists(h) ==
    UNION { [1..n -> AssignmentStatuses] : n \in 0..MaxPerHit }

HitAssignments(h, sts) ==
    [HITId |-> h,
     Assignments |-> [a \in 1..Len(sts) |->
                        [AssignmentId |-> AssignmentId(h, a), AssignmentStatus |-> sts[a]]]]

CallApproveAssignments ==
    /\ pc = "idle"
    /\ \E n \in 0..MaxAssignHits :
          \E sts \in [1..n -> AssignmentLists(0)] :
             assignments' = [h \in 1..n |-> HitAssignments(h, sts[h])]
    /\ op' = "approve" /\ pc' = "approve" /\ idx' = 1 /\ jdx' = 1
    /\ UNCHANGED <<n_threads, data, rendered, hits, reward, max_assignments, costVars,
                   hit_params, hit_batches, workerVars, resultVars, returned,
                   error, calls>>

\* one step of the nested for loops of approve_assignments
ApproveStep ==
    /\ pc = "approve"
    /\ idx <= Len(assignments)
    /\ LET recs == assignments[idx].Assignments IN
       IF jdx > Len(recs)
       THEN /\ idx' = idx + 1 /\ jdx' = 1
            /\ UNCHANGED <<pc, returned, error, calls>>
       ELSE IF recs[jdx].AssignmentStatus = "Submitted"
            THEN \E ok \in BOOLEAN :
                    /\ calls' = Append(calls, Call("approve_assignment",
                                                   recs[jdx].AssignmentId, EngineClient, ok))
                    /\ IF ok
                       THEN /\ jdx' = jdx + 1
                            /\ UNCHANGED <<pc, idx, returned, error>>
                       ELSE /\ pc' = "raised" /\ returned' = "exception"
                            /\ error' = "ClientError"
                            /\ UNCHANGED <<idx, jdx>>
            ELSE /\ jdx' = jdx + 1
                 /\ UNCHANGED <<pc, idx, returned, error, calls>>
    /\ UNCHANGED <<op, n_threads, inputVars, costVars, hit_params, hit_batches,
                   workerVars, resultVars>>

\* the outer loop is exhausted: approve_assignments returns
ApproveReturn ==
    /\ pc = "approve"
    /\ idx > Len(assignments)
    /\ pc' = "done" /\ returned' = "None"
    /\ UNCHANGED <<op, idx, jdx, n_threads, inputVars, costVars, hit_params,
                   hit_batches, workerVars, resultVars, error, calls>>

\* ---- specification ----

Next ==
    \/ CallCreateHitGroup
    \/ ExpectedCost
    \/ CostGate
    \/ BuildParams
    \/ CreatePartition
    \/ CreateConstruct
    \/ CreateStart
    \/ CreateJoin
    \/ DrainGet
    \/ CreateReturn
    \/ \E k \in 1..n_threads : CreateHitsCall(k)
    \/ \E k \in 1..n_threads : CreateHitsPut(k)
    \/ CallExpireHits
    \/ CallForceDeleteHits
    \/ CallDeleteHits
    \/ ExpirePartition
    \/ ExpireConstruct
    \/ ExpireStart
    \/ ExpireJoin
    \/ \E k \in 1..n_threads : ExpireHitsCall(k)
    \/ \E k \in 1..n_threads : ExpireHitsExit(k)
    \/ DeleteStep
    \/ DeleteReturn
    \/ CallApproveAssignments
    \/ ApproveStep
    \/ ApproveReturn

Spec == Init /\ [][Next]_vars

\* ---- create_hit_group and expire_hits with remote calls that may hang ----

\* a create_hit call of worker k that never returns: run stays inside it
CreateHitsHang(k) ==
    /\ op = "create"
    /\ k \in 1..Len(threads)
    /\ threads[k].state = "running"
    /\ threads[k].pos <= Len(threads[k].batch)
    /\ calls' = Append(calls, Call("create_hit", threads[k].batch[threads[k].pos],
                                   worker_amt[k], FALSE))
    /\ threads' = [threads EXCEPT ![k].state = "hung"]
    /\ UNCHANGED <<op, pc, idx, jdx, n_threads, inputVars, costVars, hit_params,
                   hit_batches, res_queue, put_log, worker_amt, resultVars, returned, error>>

\* an update_expiration_for_hit call of worker k that never returns
ExpireHitsHang(k) ==
    /\ op = "expire"
    /\ k \in 1..Len(threads)
    /\ threads[k].state = "running"
    /\ threads[k].pos <= Len(threads[k].batch)
    /\ calls' = Append(calls, Call("update_expiration_for_hit",
                                   threads[k].batch[threads[k].pos].HITId,
                                   worker_amt[k], FALSE))
    /\ threads' = [threads EXCEPT ![k].state = "hung"]
    /\ UNCHANGED <<op, pc, idx, jdx, n_threads, inputVars, costVars, hit_params,
                   hit_batches, res_queue, put_log, worker_amt, resultVars, returned, error>>

\* the steps of the engine thread in create_hit_group and expire_hits
EngineLive ==
    \/ CallCreateHitGroup
    \/ ExpectedCost
    \/ CostGate
    \/ BuildParams
    \/ CreatePartition
    \/ CreateConstruct
    \/ CreateStart
    \/ CreateJoin
    \/ DrainGet
    \/ CreateReturn
    \/ CallExpireHits
    \/ ExpirePartition
    \/ ExpireConstruct
    \/ ExpireStart
    \/ ExpireJoin

\* the steps of worker thread k
CreateWorker(k) == CreateHitsCall(k) \/ CreateHitsPut(k) \/ CreateHitsHang(k)
ExpireWorker(k) == ExpireHitsCall(k) \/ ExpireHitsExit(k) \/ ExpireHitsHang(k)

NextLive ==
    \/ EngineLive
    \/ \E k \in 1..n_threads : CreateWorker(k)
    \/ \E k \in 1..n_threads : ExpireWorker(k)

\* every thread that can take a step is scheduled eventually
FairThreads ==
    /\ WF_vars(EngineLive)
    /\ \A k \in 1..MaxThreads : WF_vars(CreateWorker(k)) /\ WF_vars(ExpireWorker(k))

SpecLive == Init /\ [][NextLive]_vars /\ FairThreads

\* ---- the partitioning step alone, on longer lists and more workers ----

\* create_hit_group past the cost gate (the balance just covers the cost)
\* and expire_hits on entry, both about to build hit_batches
InitPartition ==
    /\ pc = "partition" /\ idx = 0 /\ jdx = 0
    /\ n_threads \in 1..PartMaxThreads
    /\ assignments = <<>>
    /\ hit_batches = <<>>
    /\ threads = <<>> /\ res_queue = <<>> /\ put_log = <<>> /\ worker_amt = <<>>
    /\ result_list = <<>> /\ hits_created = <<>>
    /\ returned = "no" /\ error = "none" /\ snapshots = <<>>
    /\ \/ \E n \in 1..PartMaxItems :
             /\ op = "create"
             /\ data = [i \in 1..n |-> i] /\ hit_params = data /\ hits = <<>>
             /\ rendered = [i \in 1..n |-> <<"text">>]
             /\ reward = 1 /\ max_assignments = 1
             /\ cost_plus_fee = CostPlusFee(n, 1, 1)
             /\ current_balance = cost_plus_fee
             /\ cost_ret = NumRet(cost_plus_fee)
             /\ calls = <<Call("get_account_balance", 0, EngineClient, TRUE)>>
       \/ \E n \in 0..PartMaxItems :
             /\ op = "expire"
             /\ hits = [i \in 1..n |-> [HITId |-> i, HITStatus |-> "Assignable"]]
             /\ data = <<>> /\ hit_params = <<>> /\ rendered = <<>>
             /\ reward = 0 /\ max_assignments = 0
             /\ current_balance = -1 /\ cost_plus_fee = -1 /\ cost_ret = NoneRet
             /\ calls = <<>>

NextPartition == CreatePartition \/ ExpirePartition

SpecPartition == InitPartition /\ [][NextPartition]_vars

\* ---- properties ----

\* the list that hit_batches partitions
BatchInput == IF op = "create" THEN hit_params ELSE hits

\* the slots (batch, position) of hit_batches
BatchSlots == { <<k, p>> \in (1..Len(hit_batches)) \X (1..Len(BatchInput)) :
                  p <= Len(hit_batches[k]) }

Abs(x) == IF x < 0 THEN -x ELSE x

\* C1: once hit_batches is built, every item of the input list sits in
\* exactly one slot of the batches, the batches have no other slots, and the
\* sizes of any two batches differ by at most 1.
C1_PartitionExactAndBalanced ==
    pc \notin {"idle", "expected_cost", "gate", "build", "partition"} /\ hit_batches # <<>> =>
        /\ Len(hit_batches) = n_threads
        /\ \A j \in 1..Len(BatchInput) :
              Cardinality({ sl \in BatchSlots :
                              hit_batches[sl[1]][sl[2]] = BatchInput[j] }) = 1
        /\ Cardinality(BatchSlots) = Len(BatchInput)
        /\ \A k \in 1..Len(hit_batches) : Len(hit_batches[k]) <= Len(BatchInput)
        /\ \A a, b \in 1..Len(hit_batches) :
              Abs(Len(hit_batches[a]) - Len(hit_batches[b])) <= 1

\* C1 witness: 7 items were split over 3 workers into batches of 3, 2 and 2
C1_Witness ==
    /\ pc = "construct"
    /\ Len(BatchInput) = 7 /\ n_threads = 3
    /\ Len(hit_batches) = 3
    /\ Len(hit_batches[1]) = 3 /\ Len(hit_batches[2]) = 2 /\ Len(hit_batches[3]) = 2

\* the remote calls of one api, in the order they were issued
ApiCalls(api) == SelectSeq(calls, LAMBDA c : c.api = api)

\* the remote calls of one api issued through client k
ClientCalls(api, k) == SelectSeq(calls, LAMBDA c : c.api = api /\ c.client = k)

Args(cs) == [i \in 1..Len(cs) |-> cs[i].arg]

\* number of entries of a sequence that equal v
Count(sq, v) == Cardinality({ i \in 1..Len(sq) : sq[i] = v })

\* expected_cost has returned a value and create_hit_group has acted on it
GateDecided == op = "create" /\ current_balance >= 0 /\ pc # "gate"

\* create_hit_group returned None without going on
Aborted == pc = "done" /\ returned = "None"

\* C2: the gate refuses the batch exactly when the balance is below
\* len(data) * reward * MaxAssignments * 1.2, and accepts it otherwise,
\* also when the balance equals the cost.
C2_GateRefusesIffBalanceBelowCost ==
    GateDecided => (Aborted <=> current_balance < cost_plus_fee)

\* the value expected_cost returned made create_hit_group stop
GateRefused == GateDecided /\ ~Truthy(cost_ret)

\* C3: when the gate refuses, create_hit_group has returned None with no
\* worker created, no batch built, no create_hit call issued and no snapshot
\* written.
C3_RefusalAbortsEverything ==
    GateRefused =>
        /\ pc = "done" /\ returned = "None"
        /\ hit_params = <<>> /\ hit_batches = <<>>
        /\ threads = <<>> /\ res_queue = <<>>
        /\ ApiCalls("create_hit") = <<>>
        /\ snapshots = <<>> /\ hits_created = <<>>

\* C3 witness: a batch of 3 that the balance does not cover was refused
C3_Witness ==
    /\ GateRefused /\ pc = "done"
    /\ Len(data) = 3 /\ cost_plus_fee > 0 /\ current_balance < cost_plus_fee

\* the items whose create_hit call failed remotely
FailedItems ==
    { calls[i].arg : i \in { n \in 1..Len(calls) :
                               calls[n].api = "create_hit" /\ ~calls[n].ok } }

\* what a worker's list must hold for position p of its batch
ExpectedResponse(item) == IF item \in FailedItems THEN None ELSE item

\* C4: when create_hit_group returns its list, the list has one entry per
\* data point; every worker's list has, at each position of its batch, None
\* if that item's create_hit failed and the populated result otherwise; every
\* item was submitted, and every item that did not fail is in the returned
\* list exactly once.
C4_FailuresAreGapsOnly ==
    op = "create" /\ returned = "value" =>
        /\ Len(hits_created) = Len(data)
        /\ \A k \in 1..Len(threads) :
              /\ Len(threads[k].responses) = Len(threads[k].batch)
              /\ \A p \in 1..Len(threads[k].batch) :
                    threads[k].responses[p] = ExpectedResponse(threads[k].batch[p])
        /\ \A j \in 1..Len(data) :
              /\ Count(Args(ApiCalls("create_hit")), data[j]) = 1
              /\ data[j] \notin FailedItems => Count(hits_created, data[j]) = 1
        /\ Count(hits_created, None) = Cardinality(FailedItems)

\* C4 witness: one worker's batch <<1, 3>> had item 1 fail and item 3 succeed,
\* the other worker's item 2 succeeded, and 3 results were returned
C4_Witness ==
    /\ op = "create" /\ returned = "value"
    /\ n_threads = 2 /\ Len(data) = 3
    /\ FailedItems = {1}
    /\ threads[1].responses = <<None, 3>>
    /\ threads[2].responses = <<2>>

\* C5: when expire_hits has returned, every handle has received its
\* update_expiration_for_hit call, whichever calls failed.
C5_EveryHandleExpired ==
    op = "expire" /\ pc = "done" =>
        \A j \in 1..Len(hits) :
            Count(Args(ApiCalls("update_expiration_for_hit")), hits[j].HITId) = 1

\* C6: at every moment the create_hit calls a worker has issued are the items
\* of a prefix of its batch in batch order, and the k-th entry of its list is
\* the result (populated or None) of the k-th of those calls.
C6_WorkerOrderIsBatchOrder ==
    op = "create" =>
        \A k \in 1..Len(threads) :
            LET mine == ClientCalls("create_hit", k) IN
            /\ Len(mine) <= Len(threads[k].batch)
            /\ Args(mine) = SubSeq(threads[k].batch, 1, Len(mine))
            /\ Len(threads[k].responses) = Len(mine)
            /\ \A p \in 1..Len(mine) :
                  threads[k].responses[p] = IF mine[p].ok THEN threads[k].batch[p] ELSE None

\* C6 witness: worker 2 issued its call between the two calls of worker 1,
\* and worker 1 holds the results of items 1 and 3 in that order
C6_Witness ==
    /\ op = "create" /\ Len(threads) = 2
    /\ Len(calls) = 4
    /\ calls[2].client = 1 /\ calls[3].client = 2 /\ calls[4].client = 1
    /\ threads[1].responses = <<1, 3>>

\* C7: once create_hit_group drains the queue, and after it has returned or
\* raised, no worker is running; while it drains and when it returns its
\* list, every worker it started has finished its batch and has put its list
\* exactly once, so the queue and result_list together hold one list per
\* worker.
C7_CollectsOnlyAfterAllWorkersFinished ==
    op = "create" /\ (pc = "drain" \/ returned # "no") =>
        /\ \A k \in 1..Len(threads) :
              /\ threads[k].state # "running"
              /\ threads[k].pos > Len(threads[k].batch) /\ threads[k].state # "new"
                    => Count(put_log, k) = 1
        /\ pc = "drain" \/ returned = "value" =>
              /\ Len(threads) = n_threads
              /\ \A k \in 1..Len(threads) :
                    threads[k].state = "finished" /\ Count(put_log, k) = 1
              /\ Len(res_queue) + Len(result_list) = n_threads

\* C7 witness: collection begins with the lists of two workers, both with
\* work done, waiting in the queue
C7_Witness ==
    /\ op = "create" /\ pc = "drain"
    /\ Len(threads) = 2 /\ Len(res_queue) = 2 /\ result_list = <<>>
    /\ Len(threads[1].responses) = 2 /\ Len(threads[2].responses) = 1

\* C8: in force_delete_hits a delete_hit call is in the call history only
\* when all n_threads expiration workers have terminated, and no
\* update_expiration_for_hit call comes after a delete_hit call.
C8_ExpireBeforeDelete ==
    op = "force_delete" =>
        /\ ApiCalls("delete_hit") # <<>> =>
              /\ Len(threads) = n_threads
              /\ \A k \in 1..Len(threads) : Terminated(threads[k])
        /\ \A i, j \in 1..Len(calls) :
              i < j => ~(calls[i].api = "delete_hit"
                         /\ calls[j].api = "update_expiration_for_hit")

\* C8 witness: force_delete_hits returned after two expiration workers, one
\* of which died on a failing call, and after at least two deletes
C8_Witness ==
    /\ op = "force_delete" /\ pc = "done"
    /\ Len(threads) = 2
    /\ threads[1].state = "died" /\ threads[2].state = "finished"
    /\ Len(ApiCalls("update_expiration_for_hit")) >= 2
    /\ Len(ApiCalls("delete_hit")) >= 2

\* the handles delete_hits has gone through
Visited ==
    IF pc = "done" THEN hits
    ELSE IF pc = "delete" THEN SubSeq(hits, 1, idx - 1)
    ELSE <<>>

\* C9: the delete_hit calls issued so far by delete_hits are, in order, one
\* call for each handle gone through whose status is not Disposed, whether
\* or not earlier deletes failed; a Disposed handle gets no call.
C9_DeleteSkipsDisposed ==
    op \in {"delete", "force_delete"} =>
        Args(ApiCalls("delete_hit")) =
            Args(SelectSeq([i \in 1..Len(Visited) |->
                              [arg |-> Visited[i].HITId, st |-> Visited[i].HITStatus]],
                           LAMBDA h : h.st # "Disposed"))

\* C9 witness: delete_hits returned; handle 1 was deleted with a remote
\* failure, handle 2 was Disposed and skipped, handle 3 was deleted after it
C9_Witness ==
    /\ op = "delete" /\ pc = "done"
    /\ Len(hits) = 3
    /\ hits[2].HITStatus = "Disposed"
    /\ Len(calls) = 2
    /\ calls[1].arg = 1 /\ ~calls[1].ok
    /\ calls[2].arg = 3

\* the assignment records handed to approve_assignments, flattened in order
RECURSIVE Records(_)
Records(hs) == IF hs = <<>> THEN <<>> ELSE Head(hs).Assignments \o Records(Tail(hs))

SubmittedIds ==
    LET sub == SelectSeq(Records(assignments), LAMBDA a : a.AssignmentStatus = "Submitted")
    IN [i \in 1..Len(sub) |-> sub[i].AssignmentId]

\* C10: when approve_assignments has ended, it has issued exactly one
\* approve_assignment call for every record whose status is Submitted, in
\* order, and no call for a record whose status is Approved or Rejected.
C10_ApprovesExactlySubmitted ==
    op = "approve" /\ returned # "no" =>
        Args(ApiCalls("approve_assignment")) = SubmittedIds

\* some data point renders to a body whose envelope does not parse
SomeMalformed == \E i \in 1..Len(rendered) : ~QuestionValid(rendered[i])

\* C11 (as claimed): when create_hit_group has failed with the parse error,
\* the operation has issued no remote call of any kind and has created no
\* worker.
C11_NoRemoteCallBeforeParseError ==
    op = "create" /\ error = "ExpatError" =>
        calls = <<>> /\ threads = <<>>

\* C11 (amended): when some envelope is malformed and create_hit_group is
\* past line 227, then if the cost gate accepted the batch the operation has
\* failed with the parse error, the balance query of the gate is the only
\* remote call it issued, and no batch, worker or snapshot exists; if the
\* gate did not accept, the envelopes were never parsed.
C11_ParseErrorAfterGateBeforeSubmission ==
    op = "create" /\ SomeMalformed /\ pc \notin {"expected_cost", "gate", "build"} =>
        IF current_balance >= 0 /\ Truthy(cost_ret)
        THEN /\ pc = "raised" /\ error = "ExpatError"
             /\ calls = <<Call("get_account_balance", 0, EngineClient, TRUE)>>
             /\ hit_params = <<>> /\ hit_batches = <<>>
             /\ threads = <<>> /\ worker_amt = <<>>
             /\ snapshots = <<>>
        ELSE error # "ExpatError"

\* C11 witness: of 3 affordable data points the last renders a stray ]]>,
\* and the operation failed with the parse error
C11_Witness ==
    /\ op = "create" /\ error = "ExpatError"
    /\ Len(data) = 3
    /\ QuestionValid(rendered[1]) /\ QuestionValid(rendered[2])
    /\ ~QuestionValid(rendered[3])

\* the balance query of the operation failed remotely
BalanceFailed ==
    \E i \in 1..Len(calls) : calls[i].api = "get_account_balance" /\ ~calls[i].ok

\* C12: once the balance query of create_hit_group has failed, the
\* operation has raised that ClientError to its caller, and no TaskSpec, batch
\* or worker exists, no create_hit call was issued and no snapshot written.
C12_BalanceFailurePropagates ==
    op = "create" /\ BalanceFailed =>
        /\ pc = "raised" /\ returned = "exception" /\ error = "ClientError"
        /\ hit_params = <<>> /\ hit_batches = <<>>
        /\ threads = <<>> /\ worker_amt = <<>> /\ res_queue = <<>>
        /\ ApiCalls("create_hit") = <<>>
        /\ snapshots = <<>> /\ hits_created = <<>>

\* C12 witness: the balance query failed for a batch of 3 with a positive cost
C12_Witness ==
    /\ op = "create" /\ BalanceFailed
    /\ Len(data) = 3 /\ cost_plus_fee > 0
    /\ \A i \in 1..3 : QuestionValid(rendered[i])

\* C13: a TaskSpec is never the argument of two create_hit calls, every
\* create_hit call is for a TaskSpec of hit_params and is issued by the worker
\* whose batch holds it, and when create_hit_group returns its list every
\* TaskSpec has been the argument of exactly one call, failed or not.
C13_EachTaskSpecSubmittedOnce ==
    op = "create" =>
        LET created == ApiCalls("create_hit") IN
        /\ \A j \in 1..Len(hit_params) : Count(Args(created), hit_params[j]) <= 1
        /\ \A i \in 1..Len(created) :
              \E k \in 1..Len(threads) :
                 /\ created[i].client = worker_amt[k]
                 /\ \E p \in 1..Len(threads[k].batch) : threads[k].batch[p] = created[i].arg
        /\ returned = "value" =>
              /\ Len(created) = Len(data)
              /\ \A j \in 1..Len(hit_params) : Count(Args(created), hit_params[j]) = 1

\* C13 witness: create_hit_group returned after 3 calls by 2 workers, of which
\* the calls for items 2 and 3 failed and were not repeated
C13_Witness ==
    /\ op = "create" /\ returned = "value"
    /\ Len(threads) = 2 /\ Len(ApiCalls("create_hit")) = 3
    /\ FailedItems = {2, 3}

\* some worker sits in a remote call that never returns
AnyHung == \E k \in 1..Len(threads) : threads[k].state = "hung"

\* C14: with every thread scheduled fairly, create_hit_group and expire_hits
\* once called eventually return (or raise) unless a worker's remote call
\* never returns; and from the moment a worker's call hangs the operation
\* never returns.
C14_ReturnsUnlessAWorkerHangs ==
    /\ (op \in {"create", "expire"}) ~> (returned # "no" \/ AnyHung)
    /\ [](AnyHung => returned = "no" /\ pc \in {"start", "join"})

\* C14 witness: the engine waits in join for worker 1, whose second call
\* hangs, while worker 2 has finished
C14_Witness ==
    /\ op = "create" /\ pc = "join" /\ Len(threads) = 2
    /\ threads[1].state = "hung" /\ Len(threads[1].responses) = 1
    /\ threads[2].state = "finished"

\* the lists the workers have put, in the order of their puts
PutLists == [i \in 1..Len(put_log) |-> threads[put_log[i]].responses]

\* C15: no worker puts twice; the lists drained so far followed by the lists
\* still queued are the workers' lists in put order; and the list
\* create_hit_group returns is the concatenation, in put order, of one whole
\* list per worker.
C15_ResultIsConcatenationInPutOrder ==
    op = "create" =>
        /\ \A k \in 1..Len(threads) : Count(put_log, k) <= 1
        /\ result_list \o res_queue = PutLists
        /\ returned = "value" =>
              /\ Len(put_log) = n_threads
              /\ \A k \in 1..n_threads : Count(put_log, k) = 1
              /\ result_list = PutLists
              /\ hits_created = Flatten(PutLists)

\* C15 witness: worker 2 put its list before worker 1, and the returned list
\* is worker 2's block followed by worker 1's block
C15_Witness ==
    /\ op = "create" /\ returned = "value"
    /\ put_log = <<2, 1>>
    /\ hits_created = <<2, 1, 3>>

\* the indices, counted from 0, of the input items whose index mod W is k
Stripe(k) == { i \in 0..(Len(BatchInput) - 1) : i % n_threads = k }

\* C16: batch k (counted from 0) has as many items as there are input
\* indices i with i mod W = k, and its p-th item (counted from 0) is the input
\* item of index k + p * W, so the batch lists those items in ascending index
\* order; 7 items over 3 workers give the index sets {0,3,6}, {1,4}, {2,5}.
C16_RoundRobinStriping ==
    pc = "construct" =>
        /\ Len(hit_batches) = n_threads
        /\ \A k \in 0..(n_threads - 1) :
              /\ Len(hit_batches[k + 1]) = Cardinality(Stripe(k))
              /\ \A p \in 0..(Len(hit_batches[k + 1]) - 1) :
                    /\ k + p * n_threads \in Stripe(k)
                    /\ hit_batches[k + 1][p + 1] = BatchInput[k + p * n_threads + 1]
        /\ op = "create" /\ Len(hit_params) = 7 /\ n_threads = 3 =>
              hit_batches = << <<1, 4, 7>>, <<2, 5>>, <<3, 6>> >>

\* C16 witness: expire_hits split 7 handles over 3 workers, the middle batch
\* holding the handles of index 1 and 4
C16_Witness ==
    /\ op = "expire" /\ pc = "construct"
    /\ Len(hits) = 7 /\ n_threads = 3
    /\ hit_batches[2] = <<hits[2], hits[5]>>

FanOutOps == {"create", "expire", "force_delete"}

\* C17: a worker has been started only when all n_threads workers and their
\* clients have been constructed; and when the construction of a worker's
\* client has failed, the operation has raised that error with every worker
\* built so far never started and no create_hit, update_expiration_for_hit or
\* delete_hit call issued.
C17_ClientsBuiltBeforeAnyStart ==
    op \in FanOutOps =>
        /\ (\E k \in 1..Len(threads) : threads[k].state # "new") =>
              Len(threads) = n_threads /\ Len(worker_amt) = n_threads
        /\ error = "AuthError" =>
              /\ pc = "raised" /\ returned = "exception"
              /\ Len(threads) < n_threads
              /\ \A k \in 1..Len(threads) : threads[k].state = "new"
              /\ ApiCalls("create_hit") = <<>>
              /\ ApiCalls("update_expiration_for_hit") = <<>>
              /\ ApiCalls("delete_hit") = <<>>
              /\ snapshots = <<>>

\* C17 witness: expire_hits built the first of 2 workers, then the second
\* worker's client failed to authenticate
C17_Witness ==
    /\ op = "expire" /\ error = "AuthError"
    /\ n_threads = 2 /\ Len(threads) = 1
    /\ Len(hits) = 3

\* the worker whose batch holds the argument of a worker call
IssuedBy(c, k) ==
    \E p \in 1..Len(threads[k].batch) :
        c.arg = (IF op = "create" THEN threads[k].batch[p] ELSE threads[k].batch[p].HITId)

\* C18: the workers' clients are pairwise distinct objects and none is the
\* engine's client; every create_hit and update_expiration_for_hit call went
\* through the client of the worker whose batch holds its item, and every
\* balance, delete and approve call went through the engine's client.
C18_OneClientPerThread ==
    /\ Len(worker_amt) = Len(threads)
    /\ \A k \in 1..Len(worker_amt) :
          /\ worker_amt[k] # EngineClient
          /\ \A m \in 1..Len(worker_amt) : worker_amt[k] = worker_amt[m] => k = m
    /\ \A i \in 1..Len(calls) :
          IF calls[i].api \in {"create_hit", "update_expiration_for_hit"}
          THEN \A k \in 1..Len(threads) :
                  (IssuedBy(calls[i], k) <=> calls[i].client = worker_amt[k])
          ELSE calls[i].client = EngineClient

\* C18 witness: in force_delete_hits two workers each expired a handle
\* through different clients, and the engine then deleted through its own
C18_Witness ==
    /\ op = "force_delete" /\ Len(calls) >= 3
    /\ calls[1].api = "update_expiration_for_hit"
    /\ calls[2].api = "update_expiration_for_hit"
    /\ calls[1].client # calls[2].client
    /\ calls[3].api = "delete_hit" /\ calls[3].client = EngineClient

\* C19: create_hit_group has written a snapshot exactly when it has returned
\* its list, and then exactly one: written with every worker finished and
\* every list collected, holding the returned list, and labelled with that
\* list's length, None entries counted; no other operation writes one.
C19_OneSnapshotOfTheReturnedList ==
    /\ Len(snapshots) <= 1
    /\ snapshots # <<>> <=> (op = "create" /\ returned = "value")
    /\ snapshots # <<>> =>
          /\ snapshots[1].content = hits_created
          /\ snapshots[1].count = Len(hits_created)
          /\ snapshots[1].count = Len(data)
          /\ Len(threads) = n_threads
          /\ \A k \in 1..Len(threads) : threads[k].state = "finished"
          /\ res_queue = <<>> /\ Len(result_list) = n_threads

\* C19 witness: the snapshot of a batch of 3 in which two creations failed
\* is labelled 3
C19_Witness ==
    /\ op = "create" /\ returned = "value"
    /\ snapshots = <<[count |-> 3, content |-> <<None, None, 2>>]>>

\* the fan-out operation has started all its workers
AllStarted ==
    /\ op \in FanOutOps
    /\ pc \in {"join", "drain", "delete"} \/ (pc = "done" /\ hit_batches # <<>>)

\* C20: once the start loop is done there are exactly n_threads workers, all
\* started, however few items there are; a worker with an empty batch never
\* issues a remote call and never dies, and when the operation has returned
\* it has finished and, in create_hit_group, has put one empty list, the
\* returned list having one entry per data point.
C20_AlwaysNThreadsWorkers ==
    /\ AllStarted =>
          /\ Len(hit_batches) = n_threads /\ Len(threads) = n_threads
          /\ \A k \in 1..Len(threads) : threads[k].state # "new"
    /\ op \in FanOutOps =>
          \A k \in 1..Len(threads) :
             threads[k].batch = <<>> =>
                /\ \A i \in 1..Len(calls) : calls[i].client # worker_amt[k]
                /\ threads[k].responses = <<>>
                /\ threads[k].state \in {"new", "running", "finished"}
                /\ pc = "done" =>
                      /\ threads[k].state = "finished"
                      /\ op = "create" => Count(put_log, k) = 1
    /\ op = "create" /\ returned = "value" => Len(hits_created) = Len(data)

\* C20 witness: create_hit_group with 1 data point and 2 workers returned 1
\* result; the second worker had nothing to do and put its empty list first
C20_Witness ==
    /\ op = "create" /\ returned = "value"
    /\ Len(data) = 1 /\ n_threads = 2
    /\ threads[2].batch = <<>> /\ threads[2].state = "finished"
    /\ put_log = <<2, 1>>
    /\ hits_created = <<1>>
====
